---- MODULE Spec2Model ----
(***************************************************************************)
(* Order lifecycle of the Sagal gas delivery backend: createOrder,         *)
(* updateOrderStatus and deleteOrder of controllers/orderController.js,    *)
(* the Order schema with its pre('validate') / pre('save') hooks, and the  *)
(* socket.io admin_room of server.js.                                      *)
(*                                                                         *)
(* JavaScript values.  A string field is a TLA+ string, with UNDEF for the *)
(* JavaScript value undefined.  A number, an object or an array that may   *)
(* be undefined is a sequence of length at most one: <<>> is undefined and *)
(* <<v>> is the value v.  Money is counted in cents, so 0.01 is 1.         *)
(***************************************************************************)
EXTENDS Integers, Sequences, FiniteSets, TLC

VARIABLES
    store,      \* the Order collection: a function from _id to document
    nextId,     \* the next _id the store hands out
    socket,     \* per socket: "new", "connected", "joined" (in admin_room) or "closed"
    inbox,      \* per socket, the events delivered to it, oldest first
    requests,   \* the requests received so far, in order of arrival
    pending,    \* the requests suspended at an await, by request number
    responses   \* the response sent for each finished request

vars == <<store, nextId, socket, inbox, requests, pending, responses>>

----------------------------------------------------------------------------
(* Bounds of the model. *)

MaxOrders == 2
MaxReqs == 2
MaxItems == 1
MaxStats == 2

Sockets == {"s1", "s2"}

----------------------------------------------------------------------------
(* JavaScript values and operators. *)

UNDEF == "<undefined>"
None == <<>>
Some(v) == <<v>>

\* A test for undefined alone, where the code tests for a falsy value.
TruthyDefined(s) == s # UNDEF

\* !s for a string or undefined
Truthy(s) == s # UNDEF /\ s # ""
\* !n for a number or undefined
TruthyNum(n) == n # None /\ n[1] # 0
\* a || b
Or(a, b) == IF Truthy(a) THEN a ELSE b
OrNum(a, b) == IF TruthyNum(a) THEN a ELSE b
\* obj && obj.field, for an object that may be undefined
Field(obj, f) == IF obj = None THEN UNDEF ELSE obj[1][f]

\* Number.prototype.toString for the ids of the model
DigitStr == <<"0", "1", "2", "3", "4", "5", "6", "7", "8", "9">>
RECURSIVE NatToString(_)
NatToString(n) ==
    IF n < 10 THEN DigitStr[n + 1]
    ELSE NatToString(n \div 10) \o DigitStr[(n % 10) + 1]
NumToString(n) == IF n < 0 THEN "-" \o NatToString(-n) ELSE NatToString(n)

----------------------------------------------------------------------------
(* Messages of the responses. *)

MsgMissingCustomerInfo == "Please provide customer name, phone number, and address"
MsgEmptyItemList == "Please add at least one item to the order"
MsgInvalidTotal == "Total amount must be greater than 0"
MsgCreateFailed == "Failed to place order. Please try again."
MsgCreated == "Order placed successfully! Our team will contact you shortly."
MsgNotFound == "Order not found"
MsgUpdated == "Order status updated successfully"
MsgDeleted == "Order deleted successfully"

\* error.message of the errors Order.create and findByIdAndUpdate reject with
ErrHookCustomer == "Please provide customer name, phone number, and address either as root fields or nested customer object"
ErrHookTotal == "Please provide total amount either as totalAmount or total"
ErrItem == "Order validation failed: items"
ErrPaymentMethod == "Order validation failed: paymentMethod"
ErrStatus == "Validation failed: status"
ErrCast == "Cast to ObjectId failed"
ErrEmit == "<error thrown by emit>"
MsgDeleteFailed == "Failed to delete order"
ErrDuplicate == "E11000 duplicate key error: orderNumber"

----------------------------------------------------------------------------
(* createOrder: alias resolution and validation of the request body. *)

finalCustomerName(body) == Or(body.customerName, Field(body.customer, "name"))
finalPhoneNumber(body) == Or(body.phoneNumber, Field(body.customer, "phone"))
finalAddress(body) ==
    Or(body.address, Or(body.deliveryAddress, Field(body.customer, "address")))
finalTotalAmount(body) == OrNum(body.totalAmount, body.total)

\* The checks with the total tested before the item list.
ValidationTotalFirst(body) ==
    IF ~Truthy(finalCustomerName(body)) \/ ~Truthy(finalPhoneNumber(body))
       \/ ~Truthy(finalAddress(body))
    THEN MsgMissingCustomerInfo
    ELSE IF ~TruthyNum(finalTotalAmount(body)) \/ finalTotalAmount(body)[1] <= 0
    THEN MsgInvalidTotal
    ELSE IF body.items = None \/ Len(body.items[1]) = 0
    THEN MsgEmptyItemList
    ELSE "ok"

\* The three checks of createOrder, in the order of the code: "ok", or the
\* message of the first 400 response.
Validation(body) ==
    IF ~Truthy(finalCustomerName(body)) \/ ~Truthy(finalPhoneNumber(body))
       \/ ~Truthy(finalAddress(body))
    THEN MsgMissingCustomerInfo
    ELSE IF body.items = None \/ Len(body.items[1]) = 0
    THEN MsgEmptyItemList
    ELSE IF ~TruthyNum(finalTotalAmount(body)) \/ finalTotalAmount(body)[1] <= 0
    THEN MsgInvalidTotal
    ELSE "ok"

\* item.productId || item.id?.toString()
ItemProductId(item) ==
    Or(item.productId, IF item.id = None THEN UNDEF ELSE NumToString(item.id[1]))

\* The mapping with the two aliases of the item's name taken the wrong way round.
MapItemSwapped(item) ==
    [productId |-> ItemProductId(item),
     name |-> Or(item.product, item.name),
     quantity |-> item.quantity,
     price |-> item.price,
     image |-> item.image,
     product |-> Or(item.name, item.product)]

\* The function createOrder maps over items.
MapItem(item) ==
    [productId |-> ItemProductId(item),
     name |-> Or(item.name, item.product),
     quantity |-> item.quantity,
     price |-> item.price,
     image |-> item.image,
     product |-> Or(item.product, item.name)]

MapItems(items) == [i \in 1..Len(items) |-> MapItem(items[i])]

\* An orderData that takes the status of the body along.
OrderDataWithStatus(body, orderNumber) ==
    [customerName |-> finalCustomerName(body),
     phoneNumber |-> finalPhoneNumber(body),
     address |-> finalAddress(body),
     deliveryAddress |-> finalAddress(body),
     customer |-> IF body.customer # None THEN body.customer[1]
                  ELSE [name |-> finalCustomerName(body),
                        phone |-> finalPhoneNumber(body),
                        address |-> finalAddress(body)],
     location |-> body.location,
     items |-> MapItems(body.items[1]),
     totalAmount |-> finalTotalAmount(body),
     total |-> finalTotalAmount(body),
     paymentMethod |-> Or(body.paymentMethod, "cash_on_delivery"),
     status |-> body.status,
     orderNumber |-> orderNumber]

\* orderData of createOrder, for a body that passed Validation: the fields
\* the handler names, and no status.
OrderData(body, orderNumber) ==
    [customerName |-> finalCustomerName(body),
     phoneNumber |-> finalPhoneNumber(body),
     address |-> finalAddress(body),
     deliveryAddress |-> finalAddress(body),
     customer |-> IF body.customer # None THEN body.customer[1]
                  ELSE [name |-> finalCustomerName(body),
                        phone |-> finalPhoneNumber(body),
                        address |-> finalAddress(body)],
     location |-> body.location,
     items |-> MapItems(body.items[1]),
     totalAmount |-> finalTotalAmount(body),
     total |-> finalTotalAmount(body),
     paymentMethod |-> Or(body.paymentMethod, "cash_on_delivery"),
     orderNumber |-> orderNumber]

----------------------------------------------------------------------------
(* The Order schema and its hooks. *)

Statuses == {"pending", "confirmed", "preparing", "on_the_way", "delivered", "cancelled"}
PaymentMethods == {"cash_on_delivery", "online"}

\* The id virtual of an item subdocument (its store-assigned _id as a string).
SubdocId == "<subdocument _id>"

\* new Order(orderData): the schema's paths, status by its default when
\* orderData has none.
NewDocument(orderData, id) ==
    [_id |-> id,
     customerName |-> orderData.customerName,
     phoneNumber |-> orderData.phoneNumber,
     address |-> orderData.address,
     customer |-> orderData.customer,
     location |-> orderData.location,
     items |-> orderData.items,
     totalAmount |-> orderData.totalAmount,
     total |-> orderData.total,
     paymentMethod |-> orderData.paymentMethod,
     status |-> IF "status" \in DOMAIN orderData /\ orderData.status # UNDEF
                THEN orderData.status ELSE "pending",
     orderNumber |-> orderData.orderNumber,
     deliveryAddress |-> orderData.deliveryAddress,
     notes |-> UNDEF,
     assignedDriver |-> UNDEF,
     estimatedDelivery |-> UNDEF]

\* orderSchema.pre('validate'): "ok" or the message of the error passed to next.
PreValidate(doc) ==
    LET hasRootCustomerInfo ==
            Truthy(doc.customerName) /\ Truthy(doc.phoneNumber) /\ Truthy(doc.address)
        hasNestedCustomerInfo ==
            Truthy(doc.customer.name) /\ Truthy(doc.customer.phone)
            /\ Truthy(doc.customer.address)
    IN  IF ~hasRootCustomerInfo /\ ~hasNestedCustomerInfo THEN ErrHookCustomer
        ELSE IF doc.totalAmount = None /\ doc.total = None THEN ErrHookTotal
        ELSE "ok"

\* The validators of one element of items: name required, quantity required
\* with min 1, price required.
ItemValid(item) ==
    /\ Truthy(item.name)
    /\ item.quantity # None /\ item.quantity[1] >= 1
    /\ item.price # None

\* The validators of the schema's paths: "ok" or the failing path's error.
SchemaValidate(doc) ==
    IF \E i \in 1..Len(doc.items) : ~ItemValid(doc.items[i]) THEN ErrItem
    ELSE IF doc.paymentMethod \notin PaymentMethods THEN ErrPaymentMethod
    ELSE IF doc.status \notin Statuses THEN ErrStatus
    ELSE "ok"

\* The function orderSchema.pre('save') maps over this.items; item is a
\* subdocument, so item.id is its id virtual.
PreSaveItem(item) ==
    [productId |-> Or(item.productId, SubdocId),
     name |-> Or(item.name, item.product),
     quantity |-> item.quantity,
     price |-> item.price,
     image |-> item.image,
     product |-> Or(item.product, item.name)]

\* orderSchema.pre('save'), statement by statement.
CopyCustomerName(doc) ==
    IF Truthy(doc.customer.name)
    THEN [doc EXCEPT !.customerName = Or(doc.customerName, doc.customer.name)]
    ELSE doc

CopyCustomerPhone(doc) ==
    IF Truthy(doc.customer.phone)
    THEN [doc EXCEPT !.phoneNumber = Or(doc.phoneNumber, doc.customer.phone)]
    ELSE doc

CopyCustomerAddress(doc) ==
    IF Truthy(doc.customer.address)
    THEN [doc EXCEPT !.address = Or(doc.address, doc.customer.address)]
    ELSE doc

CopyTotal(doc) ==
    IF doc.total # None
    THEN [doc EXCEPT !.totalAmount = OrNum(doc.totalAmount, doc.total)]
    ELSE doc

CopyDeliveryAddress(doc) ==
    IF Truthy(doc.deliveryAddress) /\ ~Truthy(doc.address)
    THEN [doc EXCEPT !.address = doc.deliveryAddress]
    ELSE doc

CopyLocationAddress(doc) ==
    IF doc.location # None /\ Truthy(doc.location[1].address) /\ ~Truthy(doc.address)
    THEN [doc EXCEPT !.address = doc.location[1].address]
    ELSE doc

NormalizeItems(doc) ==
    IF Len(doc.items) > 0
    THEN [doc EXCEPT !.items = [i \in 1..Len(doc.items) |-> PreSaveItem(doc.items[i])]]
    ELSE doc

PreSave(doc) ==
    NormalizeItems(CopyLocationAddress(CopyDeliveryAddress(CopyTotal(
        CopyCustomerAddress(CopyCustomerPhone(CopyCustomerName(doc)))))))

\* What Order.create rejects with before anything is written, or "ok".
CreateError(doc) ==
    IF PreValidate(doc) # "ok" THEN PreValidate(doc) ELSE SchemaValidate(doc)

----------------------------------------------------------------------------
(* The store and the broadcaster. *)

EmptyMap == [x \in {} |-> x]
Put(f, k, v) == [x \in DOMAIN f \cup {k} |-> IF x = k THEN v ELSE f[x]]
Drop(f, k) == [x \in DOMAIN f \ {k} |-> f[x]]

OrderIds == 1..MaxOrders

\* The members of 'admin_room': the sockets that sent join_admin and are open.
AdminRoom == {s \in Sockets : socket[s] = "joined"}

\* An emit to a room of another name, which no socket has joined.
EmitToWrongRoom(room, event) == inbox

\* io.emit: a delivery to every open socket, member of the room or not.
EmitToAll(room, event) ==
    [s \in Sockets |->
        IF socket[s] \in {"connected", "joined"} THEN Append(inbox[s], event) ELSE inbox[s]]

\* An emit that reaches one member of the room only.
EmitToOneMember(room, event) ==
    [s \in Sockets |->
        IF room # {} /\ s = (CHOOSE x \in room : TRUE)
        THEN Append(inbox[s], event) ELSE inbox[s]]

\* io.to('admin_room').emit(type, ...): one delivery to each member of the room.
EmitTo(room, event) ==
    [s \in Sockets |-> IF s \in room THEN Append(inbox[s], event) ELSE inbox[s]]

Emit(event) == inbox' = EmitTo(AdminRoom, event)

\* The number of the request being received.
NextReq == Len(requests) + 1

Respond(r, response) == responses' = Put(responses, r, response)

\* io.on('connection')
Connect(s) ==
    /\ socket[s] = "new"
    /\ socket' = [socket EXCEPT ![s] = "connected"]
    /\ UNCHANGED <<store, nextId, inbox, requests, pending, responses>>

\* socket.on('join_admin'); a second join_admin of a member changes nothing.
JoinAdmin(s) ==
    /\ socket[s] = "connected"
    /\ socket' = [socket EXCEPT ![s] = "joined"]
    /\ UNCHANGED <<store, nextId, inbox, requests, pending, responses>>

\* socket.on('disconnect'): the socket has left every room.
Disconnect(s) ==
    /\ socket[s] \in {"connected", "joined"}
    /\ socket' = [socket EXCEPT ![s] = "closed"]
    /\ UNCHANGED <<store, nextId, inbox, requests, pending, responses>>

----------------------------------------------------------------------------
(* The handlers.  What a handler does before its await reads nothing that   *)
(* another request can change, so a request's arrival and its operation on  *)
(* the store are one step; the continuation after the await is a second     *)
(* step, and other handlers run between the two.                            *)

\* generateOrderNumber(): time plus a random component; any number of the
\* set may come back, also one that is already in use.
OrderNumbers == {"ORD-" \o NumToString(i) : i \in 1..MaxOrders}

\* A path parameter that is no ObjectId: the cast of the query's _id fails.
MalformedId == 0

\* The ids a request may name: those handed out so far and one that no
\* order has.
RequestIds == 1..(IF nextId <= MaxOrders THEN nextId ELSE MaxOrders)

OkResponse(status, message, data) ==
    [status |-> status, success |-> TRUE, message |-> message, error |-> UNDEF,
     data |-> data]

FailResponse(status, message, error) ==
    [status |-> status, success |-> FALSE, message |-> message, error |-> error,
     data |-> None]

\* A create that inserts the document before it validates it.
OrderCreateSaveFirst(orderData) ==
    LET doc == NewDocument(orderData, nextId)
    IN  IF \E id \in DOMAIN store : store[id].orderNumber = doc.orderNumber
        THEN [error |-> ErrDuplicate, order |-> None]
        ELSE [error |-> CreateError(doc), order |-> Some(PreSave(doc))]

\* A create into a collection without the unique index on orderNumber.
OrderCreateNoIndex(orderData) ==
    LET doc == NewDocument(orderData, nextId)
    IN  IF CreateError(doc) # "ok"
        THEN [error |-> CreateError(doc), order |-> None]
        ELSE [error |-> "ok", order |-> Some(PreSave(doc))]

\* Order.create(orderData): pre('validate'), the validators, pre('save'), then
\* the insert under the unique index on orderNumber.  The document inserted,
\* or the error the promise rejects with.
OrderCreate(orderData) ==
    LET doc == NewDocument(orderData, nextId)
    IN  IF CreateError(doc) # "ok"
        THEN [error |-> CreateError(doc), order |-> None]
        ELSE IF \E id \in DOMAIN store : store[id].orderNumber = doc.orderNumber
        THEN [error |-> ErrDuplicate, order |-> None]
        ELSE [error |-> "ok", order |-> Some(PreSave(doc))]

\* createOrder up to the end of `await Order.create(orderData)`: a 400
\* response when a check fails, else the call of Order.create, the only one
\* the handler makes (attempts counts the calls made for the request).
CreateOrder(body) ==
    /\ Len(requests) < MaxReqs
    /\ requests' = Append(requests, [op |-> "create", body |-> body])
    /\ IF Validation(body) # "ok"
       THEN /\ Respond(NextReq, FailResponse(400, Validation(body), UNDEF))
            /\ UNCHANGED <<store, nextId, pending>>
       ELSE /\ nextId <= MaxOrders
            /\ \E orderNumber \in OrderNumbers :
                 LET created == OrderCreate(OrderData(body, orderNumber))
                 IN  /\ pending' = Put(pending, NextReq,
                                       [op |-> "create", error |-> created.error,
                                        order |-> created.order, attempts |-> 1])
                     /\ IF created.order # None
                        THEN /\ store' = Put(store, nextId, created.order[1])
                             /\ nextId' = nextId + 1
                        ELSE UNCHANGED <<store, nextId>>
            /\ UNCHANGED responses
    /\ UNCHANGED <<socket, inbox>>

\* createOrder after the await: the emit to admin_room and the 201 response,
\* or the catch block's 400.
CreateOrderResume(r) ==
    /\ r \in DOMAIN pending
    /\ pending[r].op = "create"
    /\ IF pending[r].error = "ok"
       THEN /\ Emit([type |-> "new_order", id |-> pending[r].order[1]._id,
                     order |-> pending[r].order])
            /\ Respond(r, OkResponse(201, MsgCreated,
                   Some([orderNumber |-> pending[r].order[1].orderNumber,
                         totalAmount |-> pending[r].order[1].totalAmount])))
       ELSE /\ Respond(r, FailResponse(400, MsgCreateFailed, pending[r].error))
            /\ UNCHANGED inbox
    /\ pending' = Drop(pending, r)
    /\ UNCHANGED <<store, nextId, socket, requests>>

\* An update document that takes the administrative fields as they come.
UpdateDocOverwrite(body) ==
    [status |-> body.status, assignedDriver |-> body.assignedDriver,
     notes |-> body.notes, estimatedDelivery |-> body.estimatedDelivery]

\* The update document of updateOrderStatus: status always, an
\* administrative field only when the body's value is truthy.
UpdateDoc(body) ==
    [status |-> body.status,
     assignedDriver |-> IF Truthy(body.assignedDriver) THEN body.assignedDriver ELSE UNDEF,
     notes |-> IF Truthy(body.notes) THEN body.notes ELSE UNDEF,
     estimatedDelivery |->
         IF Truthy(body.estimatedDelivery) THEN body.estimatedDelivery ELSE UNDEF]

\* An update without runValidators.
UpdateValidateOff(update) == "ok"

\* runValidators: the enum of status, on a status that is set.
UpdateValidate(update) ==
    IF update.status # UNDEF /\ update.status \notin Statuses THEN ErrStatus ELSE "ok"

\* An update that replaces the document by the update document.
ApplyUpdateReplace(doc, update) ==
    [doc EXCEPT
        !.status = update.status, !.assignedDriver = update.assignedDriver,
        !.notes = update.notes, !.estimatedDelivery = update.estimatedDelivery,
        !.customerName = UNDEF, !.phoneNumber = UNDEF, !.address = UNDEF,
        !.items = <<>>, !.totalAmount = None, !.total = None]

\* An update that writes the administrative fields of the update alone and
\* so drops those that an earlier update had set.
ApplyUpdateLosesFields(doc, update) ==
    [doc EXCEPT
        !.status = IF update.status # UNDEF THEN update.status ELSE @,
        !.assignedDriver = update.assignedDriver,
        !.notes = update.notes,
        !.estimatedDelivery = update.estimatedDelivery]

\* $set of the keys of the update that are not undefined.
ApplyUpdate(doc, update) ==
    [doc EXCEPT
        !.status = IF update.status # UNDEF THEN update.status ELSE @,
        !.assignedDriver = IF update.assignedDriver # UNDEF THEN update.assignedDriver ELSE @,
        !.notes = IF update.notes # UNDEF THEN update.notes ELSE @,
        !.estimatedDelivery =
            IF update.estimatedDelivery # UNDEF THEN update.estimatedDelivery ELSE @]

\* The position of a status in the delivery chain.
StatusRank(st) ==
    CASE st = "pending" -> 1 [] st = "confirmed" -> 2 [] st = "preparing" -> 3
      [] st = "on_the_way" -> 4 [] st = "delivered" -> 5 [] OTHER -> 6

\* An update that refuses to move an order backwards in the chain.
FindByIdAndUpdateForwardOnly(id, update) ==
    IF UpdateValidate(update) # "ok"
    THEN [error |-> UpdateValidate(update), order |-> None]
    ELSE IF id \notin DOMAIN store
    THEN [error |-> "ok", order |-> None]
    ELSE IF update.status # UNDEF /\ StatusRank(update.status) < StatusRank(store[id].status)
    THEN [error |-> ErrStatus, order |-> None]
    ELSE [error |-> "ok", order |-> Some(ApplyUpdate(store[id], update))]

\* An update with upsert: an id that no document has gets a document.
FindByIdAndUpdateUpsert(id, update) ==
    IF id = MalformedId
    THEN [error |-> ErrCast, order |-> None]
    ELSE IF UpdateValidate(update) # "ok"
    THEN [error |-> UpdateValidate(update), order |-> None]
    ELSE IF id \notin DOMAIN store
    THEN [error |-> "ok",
          order |-> Some(ApplyUpdate([_id |-> id, customerName |-> UNDEF,
                     phoneNumber |-> UNDEF, address |-> UNDEF,
                     customer |-> [name |-> UNDEF, phone |-> UNDEF, address |-> UNDEF],
                     location |-> None, items |-> <<>>, totalAmount |-> None,
                     total |-> None, paymentMethod |-> "cash_on_delivery",
                     status |-> "pending", orderNumber |-> UNDEF,
                     deliveryAddress |-> UNDEF, notes |-> UNDEF,
                     assignedDriver |-> UNDEF, estimatedDelivery |-> UNDEF], update))]
    ELSE [error |-> "ok", order |-> Some(ApplyUpdate(store[id], update))]

\* Order.findByIdAndUpdate(id, update, { new: true, runValidators: true }):
\* the error of the cast of the id or of a validator, else null or the updated
\* document.
FindByIdAndUpdate(id, update) ==
    IF id = MalformedId
    THEN [error |-> ErrCast, order |-> None]
    ELSE IF UpdateValidate(update) # "ok"
    THEN [error |-> UpdateValidate(update), order |-> None]
    ELSE IF id \notin DOMAIN store
    THEN [error |-> "ok", order |-> None]
    ELSE [error |-> "ok", order |-> Some(ApplyUpdate(store[id], update))]

\* updateOrderStatus up to the end of `await Order.findByIdAndUpdate(...)`.
UpdateOrderStatus(id, body) ==
    /\ Len(requests) < MaxReqs
    /\ requests' = Append(requests, [op |-> "update", id |-> id, body |-> body])
    /\ LET updated == FindByIdAndUpdate(id, UpdateDoc(body))
       IN  /\ pending' = Put(pending, NextReq,
                             [op |-> "update", id |-> id, error |-> updated.error,
                              order |-> updated.order])
           /\ store' = IF updated.order # None
                       THEN [store EXCEPT ![id] = updated.order[1]]
                       ELSE store
    /\ UNCHANGED <<nextId, socket, inbox, responses>>

\* updateOrderStatus after the await: 404, or the emit and the 200 response,
\* or the catch block's 400.
UpdateOrderStatusResume(r) ==
    /\ r \in DOMAIN pending
    /\ pending[r].op = "update"
    /\ IF pending[r].error # "ok"
       THEN /\ Respond(r, FailResponse(400, pending[r].error, UNDEF))
            /\ UNCHANGED inbox
       ELSE IF pending[r].order = None
       THEN /\ Respond(r, FailResponse(404, MsgNotFound, UNDEF))
            /\ UNCHANGED inbox
       ELSE /\ Emit([type |-> "order_updated", id |-> pending[r].id,
                     order |-> pending[r].order])
            /\ Respond(r, OkResponse(200, MsgUpdated, pending[r].order))
    /\ pending' = Drop(pending, r)
    /\ UNCHANGED <<store, nextId, socket, requests>>

\* A delete that takes every id for found.
FindByIdAndDeleteFoundAny(id) == [error |-> "ok", found |-> TRUE]

\* Order.findByIdAndDelete(id): the error of the cast of the id, else whether
\* a document was found (and removed).
FindByIdAndDelete(id) ==
    IF id = MalformedId
    THEN [error |-> ErrCast, found |-> FALSE]
    ELSE [error |-> "ok", found |-> id \in DOMAIN store]

\* deleteOrder up to the end of `await Order.findByIdAndDelete(req.params.id)`.
DeleteOrder(id) ==
    /\ Len(requests) < MaxReqs
    /\ requests' = Append(requests, [op |-> "delete", id |-> id])
    /\ pending' = Put(pending, NextReq,
                      [op |-> "delete", id |-> id,
                       error |-> FindByIdAndDelete(id).error,
                       found |-> FindByIdAndDelete(id).found])
    /\ store' = Drop(store, id)
    /\ UNCHANGED <<nextId, socket, inbox, responses>>

\* deleteOrder after the await: the catch block's 500, or 404, or the emit
\* of the id and the response.
DeleteOrderResume(r) ==
    /\ r \in DOMAIN pending
    /\ pending[r].op = "delete"
    /\ IF pending[r].error # "ok"
       THEN /\ Respond(r, FailResponse(500, MsgDeleteFailed, UNDEF))
            /\ UNCHANGED inbox
       ELSE IF pending[r].found
       THEN /\ Emit([type |-> "order_deleted", id |-> pending[r].id, order |-> None])
            /\ Respond(r, OkResponse(200, MsgDeleted, None))
       ELSE /\ Respond(r, FailResponse(404, MsgNotFound, UNDEF))
            /\ UNCHANGED inbox
    /\ pending' = Drop(pending, r)
    /\ UNCHANGED <<store, nextId, socket, requests>>

\* Order.countDocuments({ status }): the number of stored orders in a status.
CountDocuments(st) == Cardinality({id \in DOMAIN store : store[id].status = st})

\* $sum of '$totalAmount' over a set of stored orders, in cents.
RECURSIVE SumTotalAmount(_)
SumTotalAmount(ids) ==
    IF ids = {} THEN 0
    ELSE LET id == CHOOSE x \in ids : TRUE
         IN  (IF store[id].totalAmount = None THEN 0 ELSE store[id].totalAmount[1])
             + SumTotalAmount(ids \ {id})

\* A revenue summed over every order, whatever its status.
TotalRevenueAnyStatus == SumTotalAmount(DOMAIN store)

\* Order.aggregate([{ $match: { status: 'delivered' } }, { $group: ... $sum }])
\* and `totalRevenue[0]?.total || 0`: no group and so 0 when nothing matches.
TotalRevenue == SumTotalAmount({id \in DOMAIN store : store[id].status = "delivered"})

\* The statuses getOrderStats counts, in the order of its queries.
StatsStatuses == <<"pending", "confirmed", "preparing", "on_the_way", "delivered", "cancelled">>

\* The k-th query of getOrderStats: the total count, the six counts by status,
\* the revenue, and today's count and revenue (every order of the model was
\* created on the day of the request).
StatsQuery(k) ==
    IF k = 1 THEN Cardinality(DOMAIN store)
    ELSE IF k <= 7 THEN CountDocuments(StatsStatuses[k - 1])
    ELSE IF k = 8 THEN TotalRevenue
    ELSE IF k = 9 THEN Cardinality(DOMAIN store)
    ELSE TotalRevenue

StatsQueries == 10

\* getOrderStats up to the end of its first await.  Statistics requests are
\* reads and do not see each other, so the model runs one at a time.
GetOrderStats ==
    /\ Cardinality({r \in 1..Len(requests) : requests[r].op = "stats"}) < MaxStats
    /\ \A r \in DOMAIN pending : pending[r].op # "stats"
    /\ requests' = Append(requests, [op |-> "stats"])
    /\ pending' = Put(pending, NextReq, [op |-> "stats", results |-> <<StatsQuery(1)>>])
    /\ UNCHANGED <<store, nextId, socket, inbox, responses>>

\* The next await of getOrderStats: one more query on the store as it is now.
GetOrderStatsQuery(r) ==
    /\ r \in DOMAIN pending
    /\ pending[r].op = "stats"
    /\ Len(pending[r].results) < StatsQueries
    /\ pending' = Put(pending, r,
                      [op |-> "stats",
                       results |-> Append(pending[r].results,
                                          StatsQuery(Len(pending[r].results) + 1))])
    /\ UNCHANGED <<store, nextId, socket, inbox, requests, responses>>

\* getOrderStats after its last await: the response.
GetOrderStatsResume(r) ==
    /\ r \in DOMAIN pending
    /\ pending[r].op = "stats"
    /\ Len(pending[r].results) = StatsQueries
    /\ Respond(r, OkResponse(200, UNDEF,
           Some([totalOrders |-> pending[r].results[1],
                 pendingOrders |-> pending[r].results[2],
                 confirmedOrders |-> pending[r].results[3],
                 preparingOrders |-> pending[r].results[4],
                 deliveryOrders |-> pending[r].results[5],
                 deliveredOrders |-> pending[r].results[6],
                 cancelledOrders |-> pending[r].results[7],
                 todayOrders |-> pending[r].results[9],
                 totalRevenue |-> pending[r].results[8],
                 todayRevenue |-> pending[r].results[10]])))
    /\ pending' = Drop(pending, r)
    /\ UNCHANGED <<store, nextId, socket, inbox, requests>>

\* The continuations when io.to('admin_room').emit throws: the emit is inside
\* the handler's try block, so the catch block answers.  Nothing is delivered.

CreateOrderEmitThrows(r) ==
    /\ r \in DOMAIN pending
    /\ pending[r].op = "create" /\ pending[r].error = "ok"
    /\ Respond(r, FailResponse(400, MsgCreateFailed, ErrEmit))
    /\ pending' = Drop(pending, r)
    /\ UNCHANGED <<store, nextId, socket, inbox, requests>>

UpdateOrderStatusEmitThrows(r) ==
    /\ r \in DOMAIN pending
    /\ pending[r].op = "update" /\ pending[r].error = "ok" /\ pending[r].order # None
    /\ Respond(r, FailResponse(400, ErrEmit, UNDEF))
    /\ pending' = Drop(pending, r)
    /\ UNCHANGED <<store, nextId, socket, inbox, requests>>

DeleteOrderEmitThrows(r) ==
    /\ r \in DOMAIN pending
    /\ pending[r].op = "delete" /\ pending[r].error = "ok" /\ pending[r].found
    /\ Respond(r, FailResponse(500, MsgDeleteFailed, UNDEF))
    /\ pending' = Drop(pending, r)
    /\ UNCHANGED <<store, nextId, socket, inbox, requests>>

\* The same two handlers with the time between the call of the store and
\* the store's execution of it made a step of its own: the handler has sent
\* the command, and commands of other requests run before it does.

\* updateOrderStatus up to the call of Order.findByIdAndUpdate.
UpdateOrderStatusCall(id, body) ==
    /\ Len(requests) < MaxReqs
    /\ requests' = Append(requests, [op |-> "update", id |-> id, body |-> body])
    /\ pending' = Put(pending, NextReq, [op |-> "update_call", id |-> id])
    /\ UNCHANGED <<store, nextId, socket, inbox, responses>>

\* The store executes the findByIdAndUpdate of request r.
FindByIdAndUpdateRuns(r) ==
    /\ r \in DOMAIN pending
    /\ pending[r].op = "update_call"
    /\ LET updated == FindByIdAndUpdate(requests[r].id, UpdateDoc(requests[r].body))
       IN  /\ pending' = Put(pending, r,
                             [op |-> "update", id |-> requests[r].id,
                              error |-> updated.error, order |-> updated.order])
           /\ store' = IF updated.order # None
                       THEN Put(store, requests[r].id, updated.order[1])
                       ELSE store
    /\ UNCHANGED <<nextId, socket, inbox, requests, responses>>

\* deleteOrder up to the call of Order.findByIdAndDelete.
DeleteOrderCall(id) ==
    /\ Len(requests) < MaxReqs
    /\ requests' = Append(requests, [op |-> "delete", id |-> id])
    /\ pending' = Put(pending, NextReq, [op |-> "delete_call", id |-> id])
    /\ UNCHANGED <<store, nextId, socket, inbox, responses>>

\* The store executes the findByIdAndDelete of request r.
FindByIdAndDeleteRuns(r) ==
    /\ r \in DOMAIN pending
    /\ pending[r].op = "delete_call"
    /\ pending' = Put(pending, r,
                      [op |-> "delete", id |-> requests[r].id,
                       error |-> FindByIdAndDelete(requests[r].id).error,
                       found |-> FindByIdAndDelete(requests[r].id).found])
    /\ store' = Drop(store, requests[r].id)
    /\ UNCHANGED <<nextId, socket, inbox, requests, responses>>

\* The 'i' option of $regex: a letter in lower case, any other character as
\* it is.
ToLowerChar(c) ==
    LET upper == "ABCDEFGHIJKLMNOPQRSTUVWXYZ"
        lower == "abcdefghijklmnopqrstuvwxyz"
    IN  IF \E i \in 1..Len(upper) : SubSeq(upper, i, i) = c
        THEN SubSeq(lower, CHOOSE k \in 1..Len(upper) : SubSeq(upper, k, k) = c,
                           CHOOSE k \in 1..Len(upper) : SubSeq(upper, k, k) = c)
        ELSE c

RECURSIVE ToLower(_)
ToLower(s) ==
    IF Len(s) = 0 THEN ""
    ELSE ToLowerChar(SubSeq(s, 1, 1)) \o ToLower(SubSeq(s, 2, Len(s)))

\* s has the substring q.
Contains(s, q) ==
    \E i \in 1..(Len(s) - Len(q) + 1) : SubSeq(s, i, i + Len(q) - 1) = q

\* { field: { $regex: pattern, $options: 'i' } } for a pattern of letters,
\* digits and dashes: a field that is set and holds the pattern, whatever the
\* case.
RegexMatch(field, pattern) ==
    field # UNDEF /\ Contains(ToLower(field), ToLower(pattern))

\* The filter with the phone pattern as a fourth alternative of $or.
SearchQueryPhoneInOr(doc, query, phone) ==
    (Truthy(query) \/ Truthy(phone)) =>
        \/ Truthy(query) /\ RegexMatch(doc.customerName, query)
        \/ Truthy(query) /\ RegexMatch(doc.orderNumber, query)
        \/ Truthy(query) /\ RegexMatch(doc.address, query)
        \/ Truthy(phone) /\ RegexMatch(doc.phoneNumber, phone)

\* searchQuery of searchOrders, as a predicate on a document: $or over
\* customerName, orderNumber and address when query is given, and
\* phoneNumber when phone is given.
SearchQuery(doc, query, phone) ==
    /\ Truthy(query) =>
          \/ RegexMatch(doc.customerName, query)
          \/ RegexMatch(doc.orderNumber, query)
          \/ RegexMatch(doc.address, query)
    /\ Truthy(phone) => RegexMatch(doc.phoneNumber, phone)

\* .sort({ createdAt: -1 }): ids are handed out in the order of creation.
RECURSIVE SortNewestFirst(_)
SortNewestFirst(ids) ==
    IF ids = {} THEN <<>>
    ELSE LET newest == CHOOSE i \in ids : \A j \in ids : j <= i
         IN  <<store[newest]>> \o SortNewestFirst(ids \ {newest})

SearchLimit == 100

\* .limit(n)
Limit(orders, n) == SubSeq(orders, 1, IF Len(orders) < n THEN Len(orders) ELSE n)

\* searchOrders up to the end of `await Order.find(searchQuery)...`.
SearchOrders(query, phone) ==
    /\ Len(requests) < MaxReqs
    /\ requests' = Append(requests, [op |-> "search", query |-> query, phone |-> phone])
    /\ pending' = Put(pending, NextReq,
           [op |-> "search",
            orders |-> Limit(SortNewestFirst({id \in DOMAIN store :
                                 SearchQuery(store[id], query, phone)}), SearchLimit)])
    /\ UNCHANGED <<store, nextId, socket, inbox, responses>>

\* searchOrders after the await: the response with the orders and their count.
SearchOrdersResume(r) ==
    /\ r \in DOMAIN pending
    /\ pending[r].op = "search"
    /\ Respond(r, OkResponse(200, UNDEF, Some([orders |-> pending[r].orders,
                                               count |-> Len(pending[r].orders)])))
    /\ pending' = Drop(pending, r)
    /\ UNCHANGED <<store, nextId, socket, inbox, requests>>

\* .skip(n)
Skip(orders, n) == SubSeq(orders, n + 1, Len(orders))

\* The filter of getAllOrders: the status, unless it is absent or 'all'.
ListQuery(doc, status) == (Truthy(status) /\ status # "all") => doc.status = status

\* getAllOrders up to the end of `await Order.find(query)...`: a page of the
\* orders of the query, newest first.
GetAllOrders(status, page, limit) ==
    /\ Len(requests) < MaxReqs
    /\ requests' = Append(requests, [op |-> "list", status |-> status, page |-> page,
                                     limit |-> limit])
    /\ pending' = Put(pending, NextReq,
           [op |-> "list", total |-> None,
            orders |-> Limit(Skip(SortNewestFirst({id \in DOMAIN store :
                                      ListQuery(store[id], status)}),
                                  (page - 1) * limit), limit)])
    /\ UNCHANGED <<store, nextId, socket, inbox, responses>>

\* getAllOrders up to the end of `await Order.countDocuments(query)`.
GetAllOrdersCount(r) ==
    /\ r \in DOMAIN pending
    /\ pending[r].op = "list" /\ pending[r].total = None
    /\ pending' = Put(pending, r,
           [pending[r] EXCEPT !.total =
               Some(Cardinality({id \in DOMAIN store :
                                    ListQuery(store[id], requests[r].status)}))])
    /\ UNCHANGED <<store, nextId, socket, inbox, requests, responses>>

\* getAllOrders after its second await: the response, with
\* Math.ceil(total / limit) pages.
GetAllOrdersResume(r) ==
    /\ r \in DOMAIN pending
    /\ pending[r].op = "list" /\ pending[r].total # None
    /\ Respond(r, OkResponse(200, UNDEF,
           Some([orders |-> pending[r].orders,
                 pagination |-> [current |-> requests[r].page,
                                 pages |-> (pending[r].total[1] + requests[r].limit - 1)
                                               \div requests[r].limit,
                                 total |-> pending[r].total[1]]])))
    /\ pending' = Drop(pending, r)
    /\ UNCHANGED <<store, nextId, socket, inbox, requests>>

MsgFetchFailed == "Failed to fetch order"

\* getOrderById up to the end of `await Order.findById(req.params.id)`.
GetOrderById(id) ==
    /\ Len(requests) < MaxReqs
    /\ requests' = Append(requests, [op |-> "get", id |-> id])
    /\ pending' = Put(pending, NextReq,
           [op |-> "get",
            error |-> IF id = MalformedId THEN ErrCast ELSE "ok",
            order |-> IF id \in DOMAIN store THEN Some(store[id]) ELSE None])
    /\ UNCHANGED <<store, nextId, socket, inbox, responses>>

\* getOrderById after the await: the catch block's 500, or 404, or the order.
GetOrderByIdResume(r) ==
    /\ r \in DOMAIN pending
    /\ pending[r].op = "get"
    /\ Respond(r, IF pending[r].error # "ok" THEN FailResponse(500, MsgFetchFailed, UNDEF)
                  ELSE IF pending[r].order = None THEN FailResponse(404, MsgNotFound, UNDEF)
                  ELSE OkResponse(200, UNDEF, pending[r].order))
    /\ pending' = Drop(pending, r)
    /\ UNCHANGED <<store, nextId, socket, inbox, requests>>

\* Authentication.  A token is its payload's id, the key it was signed with
\* and whether its time is over when it is presented.

adminUser ==
    [_id |-> "admin-user-id", username |-> "admin", password |-> "admin123",
     role |-> "admin"]

\* process.env.JWT_SECRET || 'gas_delivery_secret'
JwtSecret == "gas_delivery_secret"

signToken(id) == [id |-> id, key |-> JwtSecret, expired |-> FALSE]

\* jwt.verify(token, secret) does not throw: the signature is of the secret
\* and the token has not expired.
JwtVerify(token) == token.key = JwtSecret /\ ~token.expired

MsgNotLoggedIn == "You are not logged in. Please log in to get access."
MsgInvalidToken == "Invalid token. Please log in again."

\* login: the status of the response and the token in it.
Login(username, password) ==
    IF ~Truthy(username) \/ ~Truthy(password)
    THEN [status |-> 400, token |-> None]
    ELSE IF username = adminUser.username /\ password = adminUser.password
    THEN [status |-> 200, token |-> Some(signToken(adminUser._id))]
    ELSE [status |-> 401, token |-> None]

\* A protect that decodes the token without verifying it.
ProtectDecodeOnly(authorization) ==
    IF authorization = None \/ authorization[1].scheme # "Bearer"
       \/ authorization[1].token = None
    THEN MsgNotLoggedIn
    ELSE IF authorization[1].token[1].id = adminUser._id THEN "ok"
    ELSE MsgInvalidToken

\* protect: "ok" when it calls next(), else the message of its 401.  The
\* Authorization header is absent, or a scheme and, after the space, a token.
Protect(authorization) ==
    IF authorization = None \/ authorization[1].scheme # "Bearer"
       \/ authorization[1].token = None
    THEN MsgNotLoggedIn
    ELSE IF ~JwtVerify(authorization[1].token[1]) THEN MsgInvalidToken
    ELSE IF authorization[1].token[1].id = adminUser._id THEN "ok"
    ELSE MsgInvalidToken

\* router.<method>(path, protect, handler): protect answers 401, or calls the
\* handler in the same turn.
Protected(authorization, Handler) ==
    IF Protect(authorization) = "ok"
    THEN Handler
    ELSE /\ Len(requests) < MaxReqs
         /\ requests' = Append(requests, [op |-> "unauthorized",
                                          authorization |-> authorization])
         /\ Respond(NextReq, FailResponse(401, Protect(authorization), UNDEF))
         /\ UNCHANGED <<store, nextId, socket, inbox, pending>>

\* socket.on('order_status_update') of the server: whatever a connected
\* socket sends goes to admin_room as order_updated.  The order_assigned for
\* a data.driverId goes to a driver room, which no socket of the model has
\* joined.
OrderStatusUpdate(s, data) ==
    /\ socket[s] \in {"connected", "joined"}
    /\ Len(requests) < MaxReqs
    /\ requests' = Append(requests, [op |-> "order_status_update", socket |-> s,
                                     data |-> data])
    /\ Emit([type |-> "order_updated", id |-> data._id, order |-> Some(data)])
    /\ UNCHANGED <<store, nextId, socket, pending, responses>>

----------------------------------------------------------------------------
(* The requests the clients of the model send. *)

ValidItem ==
    [productId |-> "P1", id |-> None, name |-> "gas", product |-> UNDEF,
     quantity |-> Some(1), price |-> Some(500), image |-> UNDEF]

\* A valid submission in the flat shape, total one cent.
FlatBody ==
    [customerName |-> "Ann", phoneNumber |-> "555-0100", address |-> "A1",
     customer |-> None, items |-> Some(<<ValidItem>>),
     totalAmount |-> Some(1), total |-> None, paymentMethod |-> UNDEF,
     location |-> None, deliveryAddress |-> UNDEF, status |-> UNDEF]

\* The same customer in the nested shape.
NestedBody ==
    [FlatBody EXCEPT !.customerName = UNDEF, !.phoneNumber = UNDEF, !.address = UNDEF,
                     !.customer = Some([name |-> "Ann", phone |-> "555-0100",
                                        address |-> "A1"])]

InvalidItemBody ==
    [FlatBody EXCEPT !.items = Some(<<[ValidItem EXCEPT !.quantity = Some(0)]>>)]

\* The submissions of the system model: a valid one, one that fails a check of
\* createOrder, one that fails a validator of the schema.
Bodies == {FlatBody, [FlatBody EXCEPT !.phoneNumber = UNDEF], InvalidItemBody}

NoAdminFields == [assignedDriver |-> UNDEF, notes |-> UNDEF, estimatedDelivery |-> UNDEF]

UpdateBody(st, adminFields) ==
    [status |-> st, assignedDriver |-> adminFields.assignedDriver,
     notes |-> adminFields.notes, estimatedDelivery |-> adminFields.estimatedDelivery]

\* The status updates of the system model.
UpdateBodies ==
    {UpdateBody("delivered", NoAdminFields),
     UpdateBody("shipped", NoAdminFields),
     UpdateBody("confirmed", [NoAdminFields EXCEPT !.assignedDriver = "driver-1"])}

\* The status updates of the status model: every status, two values outside
\* the enumeration, and a body without status.
StatusInputs == Statuses \cup {"shipped", "", UNDEF}

\* Administrative fields that are empty strings, and all three given.
EmptyAdminFields == [assignedDriver |-> "", notes |-> "", estimatedDelivery |-> ""]
AllAdminFields ==
    [assignedDriver |-> "driver-2", notes |-> "call first",
     estimatedDelivery |-> "2025-01-01T10:00"]

StatusBodies ==
    {UpdateBody(st, NoAdminFields) : st \in StatusInputs}
    \cup {UpdateBody("confirmed", [NoAdminFields EXCEPT !.assignedDriver = "driver-1"]),
          UpdateBody("shipped", AllAdminFields),
          UpdateBody("preparing", EmptyAdminFields),
          UpdateBody("on_the_way", AllAdminFields)}

\* The document createOrder persists for a valid body.
SavedDoc(body, orderNumber, id) == PreSave(NewDocument(OrderData(body, orderNumber), id))

\* The collection outlives the process: at start-up it is empty or holds an
\* order that an earlier run created.
InitialStores == {EmptyMap, Put(EmptyMap, 1, SavedDoc(FlatBody, "ORD-1", 1))}

\* ... and office operations of earlier runs moved to any status.
StoresInAnyStatus ==
    {Put(EmptyMap, 1, [SavedDoc(FlatBody, "ORD-1", 1) EXCEPT !.status = st]) :
        st \in Statuses}

----------------------------------------------------------------------------
(* The system: observers, submissions, status updates and deletions. *)

Init ==
    /\ store \in InitialStores
    /\ nextId = Cardinality(DOMAIN store) + 1
    /\ socket = [s \in Sockets |-> "new"]
    /\ inbox = [s \in Sockets |-> <<>>]
    /\ requests = <<>>
    /\ pending = EmptyMap
    /\ responses = EmptyMap

SocketStep ==
    \/ \E s \in Sockets : Connect(s)
    \/ \E s \in Sockets : JoinAdmin(s)
    \/ \E s \in Sockets : Disconnect(s)

ResumeStep ==
    \/ \E r \in DOMAIN pending : CreateOrderResume(r)
    \/ \E r \in DOMAIN pending : UpdateOrderStatusResume(r)
    \/ \E r \in DOMAIN pending : DeleteOrderResume(r)

Next ==
    \/ SocketStep
    \/ \E body \in Bodies : CreateOrder(body)
    \/ \E id \in RequestIds, body \in UpdateBodies : UpdateOrderStatus(id, body)
    \/ \E id \in RequestIds : DeleteOrder(id)
    \/ ResumeStep

Spec == Init /\ [][Next]_vars

----------------------------------------------------------------------------
(* The status model: office operations on a store that holds an order in any *)
(* status, watched by one member of admin_room and one socket outside it.    *)

InitStatus ==
    /\ store \in StoresInAnyStatus
    /\ nextId = 2
    /\ socket = [s \in Sockets |-> IF s = "s1" THEN "joined" ELSE "connected"]
    /\ inbox = [s \in Sockets |-> <<>>]
    /\ requests = <<>>
    /\ pending = EmptyMap
    /\ responses = EmptyMap

NextStatus ==
    \/ CreateOrder(FlatBody)
    \/ \E id \in RequestIds, body \in StatusBodies : UpdateOrderStatus(id, body)
    \/ \E id \in RequestIds : DeleteOrder(id)
    \/ ResumeStep

SpecStatus == InitStatus /\ [][NextStatus]_vars

----------------------------------------------------------------------------
(* The submission model: one submission out of every input shape, sent to an *)
(* empty store and watched by one member of admin_room; then the same        *)
(* customer sent again in the flat shape, or the persisted record sent back. *)

CustomerNames == {UNDEF, "", "Ann"}
PhoneNumbers == {UNDEF, "555-0100"}
Addresses == {UNDEF, "", "A1"}
Customers ==
    {None} \cup {Some([name |-> n, phone |-> ph, address |-> a]) :
                    n \in {UNDEF, "Bob"}, ph \in {UNDEF, "777-0200"},
                    a \in {UNDEF, "", "A2"}}
DeliveryAddresses == {UNDEF, "A3"}
Locations == {None, Some([address |-> UNDEF]), Some([address |-> "A4"])}

\* Items that differ in their aliases, and items that differ in their numbers.
SubmitItems ==
    {[ValidItem EXCEPT !.productId = pid, !.id = id, !.name = n, !.product = pr] :
        pid \in {UNDEF, "P1"}, id \in {None, Some(0), Some(17)},
        n \in {UNDEF, "", "gas"}, pr \in {UNDEF, "cylinder"}}
    \cup {[ValidItem EXCEPT !.quantity = q, !.price = pr] :
            q \in {None, Some(0), Some(1)},
            pr \in {None, Some(-1), Some(0), Some(500)}}

ItemLists == UNION {[1..n -> SubmitItems] : n \in 0..MaxItems}

Amounts == {None, Some(-1), Some(0), Some(1)}
Totals == {None, Some(-5), Some(0), Some(5)}

\* Every shape of the customer fields, with a few item lists and totals.
CustomerShapes ==
    {[customerName |-> n, phoneNumber |-> ph, address |-> a, customer |-> c,
      items |-> its, totalAmount |-> t[1], total |-> t[2], paymentMethod |-> UNDEF,
      location |-> loc, deliveryAddress |-> da, status |-> UNDEF] :
        n \in CustomerNames, ph \in PhoneNumbers, a \in Addresses, c \in Customers,
        da \in DeliveryAddresses, loc \in Locations,
        its \in {Some(<<ValidItem>>), Some(<<>>), Some(<<InvalidItemBody.items[1][1]>>)},
        t \in {<<Some(1), None>>, <<Some(0), None>>, <<None, None>>}}

\* Every item list, with and without customer info and a valid total.
ItemShapes ==
    {[b EXCEPT !.items = its, !.totalAmount = t] :
        b \in {FlatBody, [FlatBody EXCEPT !.phoneNumber = UNDEF]},
        its \in {None} \cup {Some(l) : l \in ItemLists},
        t \in {Some(1), Some(0)}}

\* Every pair of totals, payment method and client-sent status.
TotalShapes ==
    {[b EXCEPT !.totalAmount = t, !.total = tt, !.paymentMethod = pm, !.status = st] :
        b \in {FlatBody, NestedBody, [FlatBody EXCEPT !.items = Some(<<>>)]},
        t \in Amounts, tt \in Totals, pm \in {UNDEF, "online", "card"},
        st \in {UNDEF, "delivered"}}

SubmitBodies == CustomerShapes \cup ItemShapes \cup TotalShapes

\* A body that names the customer in the nested object alone.
NestedShape(body) ==
    /\ body.customerName = UNDEF /\ body.phoneNumber = UNDEF /\ body.address = UNDEF
    /\ body.customer # None
    /\ Truthy(body.customer[1].name) /\ Truthy(body.customer[1].phone)
    /\ Truthy(body.customer[1].address)

\* The same submission with the customer's values in the flat fields.
ToFlat(body) ==
    [body EXCEPT !.customerName = body.customer[1].name,
                 !.phoneNumber = body.customer[1].phone,
                 !.address = body.customer[1].address,
                 !.customer = None]

\* The JSON of a persisted order, sent as the body of a submission.
AsBody(doc) ==
    [customerName |-> doc.customerName, phoneNumber |-> doc.phoneNumber,
     address |-> doc.address, customer |-> Some(doc.customer),
     items |-> Some([i \in 1..Len(doc.items) |->
                        [productId |-> doc.items[i].productId, id |-> None,
                         name |-> doc.items[i].name, product |-> doc.items[i].product,
                         quantity |-> doc.items[i].quantity, price |-> doc.items[i].price,
                         image |-> doc.items[i].image]]),
     totalAmount |-> doc.totalAmount, total |-> doc.total,
     paymentMethod |-> doc.paymentMethod, location |-> doc.location,
     deliveryAddress |-> doc.deliveryAddress, status |-> doc.status]

InitSubmit ==
    /\ store = EmptyMap
    /\ nextId = 1
    /\ socket = [s \in Sockets |-> IF s = "s1" THEN "joined" ELSE "connected"]
    /\ inbox = [s \in Sockets |-> <<>>]
    /\ requests = <<>>
    /\ pending = EmptyMap
    /\ responses = EmptyMap

\* The first submission.
Submit ==
    /\ requests = <<>>
    /\ \E body \in SubmitBodies : CreateOrder(body)

\* The second submission, once the first has been answered.
FirstPersisted == Len(requests) = 1 /\ 1 \in DOMAIN responses /\ 1 \in DOMAIN store

SubmitFlat ==
    /\ FirstPersisted
    /\ NestedShape(requests[1].body)
    /\ CreateOrder(ToFlat(requests[1].body))

Resubmit ==
    /\ FirstPersisted
    /\ CreateOrder(AsBody(store[1]))

NextSubmit ==
    \/ Submit
    \/ SubmitFlat
    \/ Resubmit
    \/ \E r \in DOMAIN pending : CreateOrderResume(r)

SpecSubmit == InitSubmit /\ [][NextSubmit]_vars

----------------------------------------------------------------------------
(* The office model: status updates and deletions in flight together, on a   *)
(* store that holds one order, named by the order's id, by an id that no     *)
(* order has and by a path parameter that is no id.                          *)

OfficeIds == {MalformedId, 1, 2}

OfficeBodies ==
    {UpdateBody("delivered", NoAdminFields),
     UpdateBody("cancelled", [NoAdminFields EXCEPT !.notes = "customer away"]),
     UpdateBody("shipped", NoAdminFields)}

InitOffice ==
    /\ store \in {Put(EmptyMap, 1, [SavedDoc(FlatBody, "ORD-1", 1) EXCEPT !.status = st]) :
                     st \in {"pending", "delivered"}}
    /\ nextId = 2
    /\ socket = [s \in Sockets |-> IF s = "s1" THEN "joined" ELSE "connected"]
    /\ inbox = [s \in Sockets |-> <<>>]
    /\ requests = <<>>
    /\ pending = EmptyMap
    /\ responses = EmptyMap

NextOffice ==
    \/ \E id \in OfficeIds, body \in OfficeBodies : UpdateOrderStatusCall(id, body)
    \/ \E id \in OfficeIds : DeleteOrderCall(id)
    \/ \E r \in DOMAIN pending : FindByIdAndUpdateRuns(r)
    \/ \E r \in DOMAIN pending : FindByIdAndDeleteRuns(r)
    \/ \E r \in DOMAIN pending : UpdateOrderStatusResume(r)
    \/ \E r \in DOMAIN pending : DeleteOrderResume(r)

SpecOffice == InitOffice /\ [][NextOffice]_vars

----------------------------------------------------------------------------
(* The statistics model: getOrderStats between submissions, status updates   *)
(* and deletions, on a store that holds up to two orders of different totals. *)

\* A valid submission whose total is 2.50.
LargeBody == [FlatBody EXCEPT !.totalAmount = Some(250)]

StatsStores ==
    {EmptyMap,
     Put(EmptyMap, 1, [SavedDoc(FlatBody, "ORD-1", 1) EXCEPT !.status = "delivered"]),
     Put(Put(EmptyMap, 1, [SavedDoc(FlatBody, "ORD-1", 1) EXCEPT !.status = "delivered"]),
         2, [SavedDoc(LargeBody, "ORD-2", 2) EXCEPT !.status = "delivered"])}

StatsBodies == {UpdateBody(st, NoAdminFields) : st \in {"delivered", "preparing"}}

InitStats ==
    /\ store \in StatsStores
    /\ nextId = Cardinality(DOMAIN store) + 1
    /\ socket = [s \in Sockets |-> IF s = "s1" THEN "joined" ELSE "connected"]
    /\ inbox = [s \in Sockets |-> <<>>]
    /\ requests = <<>>
    /\ pending = EmptyMap
    /\ responses = EmptyMap

NextStats ==
    \/ CreateOrder(LargeBody)
    \/ \E id \in RequestIds, body \in StatsBodies : UpdateOrderStatus(id, body)
    \/ \E id \in RequestIds : DeleteOrder(id)
    \/ GetOrderStats
    \/ \E r \in DOMAIN pending : GetOrderStatsQuery(r)
    \/ \E r \in DOMAIN pending : GetOrderStatsResume(r)
    \/ ResumeStep

SpecStats == InitStats /\ [][NextStats]_vars

----------------------------------------------------------------------------
(* The system with a broadcaster whose emit may throw. *)

EmitThrowsStep ==
    \/ \E r \in DOMAIN pending : CreateOrderEmitThrows(r)
    \/ \E r \in DOMAIN pending : UpdateOrderStatusEmitThrows(r)
    \/ \E r \in DOMAIN pending : DeleteOrderEmitThrows(r)

NextEmitThrows ==
    \/ Next
    \/ EmitThrowsStep

SpecEmitThrows == Init /\ [][NextEmitThrows]_vars

----------------------------------------------------------------------------
(* The search model: searches, two of them in flight together, on a store of *)
(* three orders of three customers.                                          *)

SearchStore ==
    Put(Put(Put(EmptyMap,
        1, SavedDoc(FlatBody, "ORD-1", 1)),
        2, SavedDoc([FlatBody EXCEPT !.customerName = "Bob", !.phoneNumber = "555-0101",
                                     !.address = "B2"], "ORD-2", 2)),
        3, SavedDoc([FlatBody EXCEPT !.customerName = "Cy", !.phoneNumber = "777-0200",
                                     !.address = "C3"], "ORD-3", 3))

\* Text queries: none, empty, a piece of two phone numbers, a name in another
\* case.
SearchTexts == {UNDEF, "", "555", "ANN"}

\* Phone filters: none, a piece of two phone numbers, a piece of one.
SearchPhones == {UNDEF, "555", "0200"}

InitSearch ==
    /\ store \in {SearchStore, Drop(SearchStore, 1)}
    /\ nextId = 4
    /\ socket = [s \in Sockets |-> IF s = "s1" THEN "joined" ELSE "connected"]
    /\ inbox = [s \in Sockets |-> <<>>]
    /\ requests = <<>>
    /\ pending = EmptyMap
    /\ responses = EmptyMap

NextSearch ==
    \/ \E query \in SearchTexts, phone \in SearchPhones : SearchOrders(query, phone)
    \/ \E r \in DOMAIN pending : SearchOrdersResume(r)

SpecSearch == InitSearch /\ [][NextSearch]_vars

----------------------------------------------------------------------------
(* The router's six protected routes, called with and without the admin's   *)
(* token, on a store that holds one order.                                   *)

\* The header of a caller that logged in as the admin.
AdminHeader == Some([scheme |-> "Bearer", token |-> Login("admin", "admin123").token])

\* No header, the admin's token under another scheme, the admin's token, the
\* same expired, a token signed with another key, and a token for another id.
AuthHeaders ==
    {None, Some([scheme |-> "Basic", token |-> AdminHeader[1].token]), AdminHeader} \cup
    {Some([scheme |-> "Bearer", token |-> Some(token)]) :
        token \in {[signToken(adminUser._id) EXCEPT !.expired = TRUE],
                   [signToken(adminUser._id) EXCEPT !.key = "guess"],
                   signToken("user-7")}}

\* A request to one of the protected routes: list, statistics, search, get,
\* status update, delete.
OfficeRequest(authorization) ==
    \/ Protected(authorization,
                 \E q \in {[status |-> UNDEF, page |-> 1, limit |-> 50],
                           [status |-> "delivered", page |-> 2, limit |-> 1]} :
                     GetAllOrders(q.status, q.page, q.limit))
    \/ Protected(authorization, GetOrderStats)
    \/ Protected(authorization, SearchOrders("ANN", UNDEF))
    \/ Protected(authorization, \E id \in {MalformedId, 1} : GetOrderById(id))
    \/ Protected(authorization,
                 UpdateOrderStatus(1, UpdateBody("delivered", NoAdminFields)))
    \/ Protected(authorization, DeleteOrder(1))

InitAuth ==
    /\ store = Put(EmptyMap, 1, SavedDoc(FlatBody, "ORD-1", 1))
    /\ nextId = 2
    /\ socket = [s \in Sockets |-> IF s = "s1" THEN "joined" ELSE "connected"]
    /\ inbox = [s \in Sockets |-> <<>>]
    /\ requests = <<>>
    /\ pending = EmptyMap
    /\ responses = EmptyMap

NextAuth ==
    \/ \E authorization \in AuthHeaders : OfficeRequest(authorization)
    \/ \E r \in DOMAIN pending : GetAllOrdersCount(r)
    \/ \E r \in DOMAIN pending : GetAllOrdersResume(r)
    \/ \E r \in DOMAIN pending : GetOrderStatsQuery(r)
    \/ \E r \in DOMAIN pending : GetOrderStatsResume(r)
    \/ \E r \in DOMAIN pending : SearchOrdersResume(r)
    \/ \E r \in DOMAIN pending : GetOrderByIdResume(r)
    \/ \E r \in DOMAIN pending : UpdateOrderStatusResume(r)
    \/ \E r \in DOMAIN pending : DeleteOrderResume(r)

SpecAuth == InitAuth /\ [][NextAuth]_vars

----------------------------------------------------------------------------
(* The relay model: status updates over the router and order_status_update   *)
(* messages over the sockets, on a store that holds one pending order.       *)

\* What a socket sends: the stored order as delivered, and an order that the
\* store does not hold.
RelayData ==
    {[SavedDoc(FlatBody, "ORD-1", 1) EXCEPT !.status = "delivered"],
     [SavedDoc(FlatBody, "ORD-2", 2) EXCEPT !.status = "cancelled"]}

InitRelay ==
    /\ store = Put(EmptyMap, 1, SavedDoc(FlatBody, "ORD-1", 1))
    /\ nextId = 2
    /\ socket = [s \in Sockets |-> IF s = "s1" THEN "joined" ELSE "new"]
    /\ inbox = [s \in Sockets |-> <<>>]
    /\ requests = <<>>
    /\ pending = EmptyMap
    /\ responses = EmptyMap

NextRelay ==
    \/ SocketStep
    \/ \E id \in OfficeIds, body \in OfficeBodies : UpdateOrderStatus(id, body)
    \/ \E r \in DOMAIN pending : UpdateOrderStatusResume(r)
    \/ \E s \in Sockets, data \in RelayData : OrderStatusUpdate(s, data)

SpecRelay == InitRelay /\ [][NextRelay]_vars

----------------------------------------------------------------------------
(* Properties. *)

\* The number of events of a type about order id in a socket's inbox.
EventCount(box, type, id) ==
    Cardinality({i \in 1..Len(box) : box[i].type = type /\ box[i].id = id})

\* The error kind a response of createOrder reports.
Reported(resp) ==
    IF resp.success THEN "Ok"
    ELSE IF resp.message = MsgMissingCustomerInfo THEN "MissingCustomerInfo"
    ELSE IF resp.message = MsgEmptyItemList THEN "EmptyItemList"
    ELSE IF resp.message = MsgInvalidTotal THEN "InvalidTotal"
    ELSE IF resp.message = MsgCreateFailed /\ resp.error = ErrItem THEN "InvalidItem"
    ELSE "Other"

\* Two persisted orders that differ at most in _id and orderNumber.
SameRecord(d1, d2) ==
    [d1 EXCEPT !._id = 0, !.orderNumber = ""] = [d2 EXCEPT !._id = 0, !.orderNumber = ""]

\* The first submission of the submission model has been answered.
FirstAnswered == Len(requests) >= 1 /\ 1 \in DOMAIN responses

CustomerInfoGiven(body) ==
    Truthy(finalCustomerName(body)) /\ Truthy(finalPhoneNumber(body))
    /\ Truthy(finalAddress(body))

ItemsGiven(body) == body.items # None /\ Len(body.items[1]) > 0

\* Every item has a name or product, a quantity of at least 1 and a price.
ItemsValid(body) ==
    ItemsGiven(body) /\ \A i \in 1..Len(body.items[1]) : ItemValid(MapItem(body.items[1][i]))

TotalValid(body) == TruthyNum(finalTotalAmount(body)) /\ finalTotalAmount(body)[1] > 0

PaymentValid(body) == body.paymentMethod \in PaymentMethods \cup {UNDEF}

\* C1: when createOrder answers with success, that step delivers exactly one
\* new_order event for the order to every socket that is then a member of
\* admin_room and none to any other socket, no inbox held such an event
\* before, and no inbox ever holds two.
C1_CreatedExactlyOnce ==
    /\ [](\A s \in Sockets, id \in OrderIds : EventCount(inbox[s], "new_order", id) <= 1)
    /\ [][\A r \in DOMAIN pending :
            (pending[r].op = "create" /\ r \notin DOMAIN pending' /\ responses'[r].success)
            => \A s \in Sockets :
                 /\ EventCount(inbox[s], "new_order", pending[r].order[1]._id) = 0
                 /\ EventCount(inbox'[s], "new_order", pending[r].order[1]._id)
                      = IF socket[s] = "joined" THEN 1 ELSE 0
                 /\ Len(inbox'[s]) = Len(inbox[s]) + IF socket[s] = "joined" THEN 1 ELSE 0
         ]_vars

\* C1 witness: a submission was answered 201, a socket that had joined holds
\* its one new_order event and a socket outside the room holds nothing.
C1_Witness ==
    \E r \in DOMAIN responses, s \in Sockets :
        /\ requests[r].op = "create" /\ responses[r].status = 201
        /\ socket[s] = "joined"
        /\ \E id \in OrderIds : EventCount(inbox[s], "new_order", id) = 1
        /\ \E t \in Sockets : socket[t] = "connected" /\ inbox[t] = <<>>

\* C2: in the submission model, a first submission that failed (a check of
\* createOrder or a validator of the schema) has left the store empty, has
\* handed out no _id and has delivered no event to any socket.
C2_FailedSubmitWritesNothing ==
    (/\ Len(requests) = 1
     /\ \/ 1 \in DOMAIN responses /\ ~responses[1].success
        \/ 1 \in DOMAIN pending /\ pending[1].error # "ok")
    => /\ store = EmptyMap
       /\ nextId = 1
       /\ \A s \in Sockets : inbox[s] = <<>>

\* C2 witness: a submission with an invalid item was answered with the failure
\* of the catch block, and nothing was stored or delivered.
C2_Witness ==
    /\ Len(requests) = 1 /\ FirstAnswered
    /\ Reported(responses[1]) = "InvalidItem"
    /\ store = EmptyMap
    /\ \A s \in Sockets : inbox[s] = <<>>

\* C3: the answer to a submission names the first rule violated in the order
\* customer info, item list (non-empty, every item valid), total amount.
C3_ValidationOrder ==
    (Len(requests) = 1 /\ FirstAnswered)
    => LET body == requests[1].body
       IN  Reported(responses[1]) =
             IF ~CustomerInfoGiven(body) THEN "MissingCustomerInfo"
             ELSE IF ~ItemsGiven(body) THEN "EmptyItemList"
             ELSE IF ~ItemsValid(body) THEN "InvalidItem"
             ELSE IF ~TotalValid(body) THEN "InvalidTotal"
             ELSE Reported(responses[1])

\* C4 as claimed: a submission with an empty item list is answered
\* EmptyItemList whatever its other fields.
C4_EmptyListAlways ==
    (Len(requests) = 1 /\ FirstAnswered /\ requests[1].body.items = Some(<<>>))
    => Reported(responses[1]) = "EmptyItemList"

\* C4 amended: a submission with an empty item list whose customer name, phone
\* number and address are given is answered EmptyItemList, whatever its total,
\* payment method and other fields, and nothing is stored.
C4_EmptyListAfterCustomerInfo ==
    (/\ Len(requests) = 1 /\ FirstAnswered
     /\ requests[1].body.items = Some(<<>>)
     /\ CustomerInfoGiven(requests[1].body))
    => Reported(responses[1]) = "EmptyItemList" /\ store = EmptyMap

\* C4 witness: an empty item list with an invalid total and an unknown payment
\* method was answered EmptyItemList.
C4_Witness ==
    /\ Len(requests) = 1 /\ FirstAnswered
    /\ requests[1].body.items = Some(<<>>)
    /\ ~TotalValid(requests[1].body)
    /\ requests[1].body.paymentMethod = "card"
    /\ Reported(responses[1]) = "EmptyItemList"

\* C5: a submission that is valid but for its totalAmount is answered
\* InvalidTotal and stores nothing when totalAmount is 0 or negative, and
\* succeeds when totalAmount is one cent.
C5_TotalAmountBounds ==
    (/\ Len(requests) = 1 /\ FirstAnswered
     /\ CustomerInfoGiven(requests[1].body)
     /\ ItemsValid(requests[1].body)
     /\ PaymentValid(requests[1].body)
     /\ requests[1].body.totalAmount # None)
    => IF requests[1].body.totalAmount[1] <= 0
       THEN Reported(responses[1]) = "InvalidTotal" /\ store = EmptyMap
       ELSE requests[1].body.totalAmount[1] = 1 => responses[1].success

\* C6: the record persisted for a submission in the nested shape equals, but
\* for _id and orderNumber, the record persisted for the same submission with
\* the customer's values in the flat fields.
C6_NestedEqualsFlat ==
    (/\ Len(requests) = 2
     /\ NestedShape(requests[1].body)
     /\ requests[2].body = ToFlat(requests[1].body)
     /\ 1 \in DOMAIN store /\ 2 \in DOMAIN store)
    => SameRecord(store[1], store[2])

\* C7: every stored order has a non-empty customerName, phoneNumber and address.
C7_FlatFieldsPopulated ==
    \A id \in DOMAIN store :
        /\ store[id].customerName \notin {UNDEF, ""}
        /\ store[id].phoneNumber \notin {UNDEF, ""}
        /\ store[id].address \notin {UNDEF, ""}

\* C7 witness: an order is stored whose submission gave no flat customer field.
C7_Witness ==
    /\ Len(requests) >= 1 /\ 1 \in DOMAIN store
    /\ NestedShape(requests[1].body)
    /\ store[1].customerName = "Bob" /\ store[1].phoneNumber = "777-0200"
    /\ store[1].address \notin {UNDEF, ""}

C9_RenormalizeIsNoOp ==
    (/\ Len(requests) = 2
     /\ 1 \in DOMAIN store
     /\ requests[2].body = AsBody(store[1]))
    => /\ Validation(requests[2].body) = "ok"
       /\ 2 \in DOMAIN store => SameRecord(store[1], store[2])
       /\ 2 \notin DOMAIN store =>
            /\ 2 \in DOMAIN pending => pending[2].error = ErrDuplicate
            /\ 2 \in DOMAIN responses => responses[2].error = ErrDuplicate

\* C9 witness: a record whose submission used the aliases (nested customer,
\* item product and numeric id, total) was sent back and persisted again.
C9_Witness ==
    /\ Len(requests) = 2
    /\ 1 \in DOMAIN store /\ 2 \in DOMAIN store
    /\ requests[2].body = AsBody(store[1])
    /\ requests[2].body # requests[1].body
    /\ \/ NestedShape(requests[1].body)
       \/ /\ requests[1].body.items[1][1].id # None
          /\ requests[1].body.items[1][1].productId = UNDEF
          /\ ~Truthy(requests[1].body.items[1][1].name)

\* C10: an update of an order in the store to any of the six statuses stores
\* that status, whatever the status before, and is answered with success and
\* the updated record; the status of every stored order is one of the six.
C10_AnyStatusToAnyStatus ==
    /\ [](\A id \in DOMAIN store : store[id].status \in Statuses)
    /\ [][(/\ Len(requests') = Len(requests) + 1
           /\ requests'[Len(requests')].op = "update"
           /\ requests'[Len(requests')].id \in DOMAIN store
           /\ requests'[Len(requests')].body.status \in Statuses)
          => /\ store'[requests'[Len(requests')].id].status
                  = requests'[Len(requests')].body.status
             /\ pending'[Len(requests')].error = "ok"
             /\ pending'[Len(requests')].order
                  = Some(store'[requests'[Len(requests')].id])
         ]_vars
    /\ [][\A r \in DOMAIN pending :
            (/\ pending[r].op = "update" /\ r \notin DOMAIN pending'
             /\ requests[r].body.status \in Statuses
             /\ pending[r].error = "ok" /\ pending[r].order # None)
            => /\ responses'[r].success
               /\ responses'[r].data = pending[r].order
               /\ responses'[r].data[1].status = requests[r].body.status
         ]_vars

\* C10 witness: an order was moved to delivered and then back to pending, both
\* updates answered with success.
C10_Witness ==
    /\ Len(requests) = 2
    /\ requests[1].op = "update" /\ requests[2].op = "update"
    /\ requests[1].id = 1 /\ requests[2].id = 1
    /\ requests[1].body.status = "delivered" /\ requests[2].body.status = "pending"
    /\ 1 \in DOMAIN responses /\ 2 \in DOMAIN responses
    /\ responses[1].success /\ responses[2].success
    /\ store[1].status = "pending"

\* The request a step receives, if it receives one.
Received == Len(requests') = Len(requests) + 1
NewRequest == requests'[Len(requests')]

\* Request r is answered in this step.
Answered(r) == r \in DOMAIN pending /\ r \notin DOMAIN pending'

\* C11: an update of a stored order to a status outside the enumeration is
\* rejected with the enum validator's error, changes no field of any stored
\* record (also when valid administrative fields come with it), is answered
\* 400 with that error and delivers no event.
C11_BadStatusChangesNothing ==
    /\ [][(/\ Received /\ NewRequest.op = "update"
           /\ NewRequest.id \in DOMAIN store
           /\ NewRequest.body.status \notin Statuses \cup {UNDEF})
          => /\ store' = store
             /\ inbox' = inbox
             /\ pending'[Len(requests')].error = ErrStatus
             /\ pending'[Len(requests')].order = None
         ]_vars
    /\ [][\A r \in DOMAIN pending :
            (/\ Answered(r) /\ pending[r].op = "update"
             /\ requests[r].body.status \notin Statuses \cup {UNDEF})
            => /\ ~responses'[r].success
               /\ responses'[r].status = 400
               /\ responses'[r].message = ErrStatus
               /\ store' = store
               /\ inbox' = inbox
         ]_vars

\* C11 witness: an update to 'shipped' that carried a driver, notes and a
\* delivery time was answered 400; the order holds none of them and the member
\* of admin_room has received nothing.
C11_Witness ==
    /\ Len(requests) = 1 /\ 1 \in DOMAIN responses
    /\ requests[1].op = "update" /\ requests[1].id \in DOMAIN store
    /\ requests[1].body = UpdateBody("shipped", AllAdminFields)
    /\ responses[1].status = 400 /\ responses[1].message = ErrStatus
    /\ store[requests[1].id].assignedDriver = UNDEF
    /\ store[requests[1].id].notes = UNDEF
    /\ \A s \in Sockets : inbox[s] = <<>>

\* C12: a successful update of a stored order writes assignedDriver, notes and
\* estimatedDelivery exactly where the body's value is non-empty, and leaves
\* the stored value where the body's value is absent or the empty string.
C12_AdminFieldsMergedIfGiven ==
    [][(/\ Received /\ NewRequest.op = "update"
        /\ NewRequest.id \in DOMAIN store
        /\ NewRequest.body.status \in Statuses)
       => LET id == NewRequest.id
              body == NewRequest.body
          IN  /\ pending'[Len(requests')].error = "ok"
              /\ store'[id].assignedDriver =
                   IF body.assignedDriver \in {UNDEF, ""}
                   THEN store[id].assignedDriver ELSE body.assignedDriver
              /\ store'[id].notes =
                   IF body.notes \in {UNDEF, ""} THEN store[id].notes ELSE body.notes
              /\ store'[id].estimatedDelivery =
                   IF body.estimatedDelivery \in {UNDEF, ""}
                   THEN store[id].estimatedDelivery ELSE body.estimatedDelivery
      ]_vars

\* C12 witness: an order was given a driver, notes and a delivery time, and a
\* later update whose three fields were empty strings left them in place.
C12_Witness ==
    /\ Len(requests) = 2
    /\ requests[1].op = "update" /\ requests[2].op = "update"
    /\ requests[1].id = requests[2].id /\ requests[1].id \in DOMAIN store
    /\ requests[1].body = UpdateBody("on_the_way", AllAdminFields)
    /\ requests[2].body = UpdateBody("preparing", EmptyAdminFields)
    /\ store[requests[1].id].status = "preparing"
    /\ store[requests[1].id].assignedDriver = "driver-2"
    /\ store[requests[1].id].notes = "call first"
    /\ store[requests[1].id].estimatedDelivery = "2025-01-01T10:00"

\* The store executes the command of request r in this step.
Runs(r, op) ==
    /\ r \in DOMAIN pending /\ pending[r].op = op \o "_call"
    /\ r \in DOMAIN pending' /\ pending'[r].op = op

Deleted ==
    {requests[r].id : r \in
        {q \in 1..Len(requests) :
            /\ requests[q].op = "delete"
            /\ \/ q \in DOMAIN pending /\ pending[q].op = "delete" /\ pending[q].found
               \/ q \in DOMAIN responses /\ responses[q].success}}

\* C15: an order that a delete has removed is never in the store again; an
\* update (with a status of the enumeration) or a delete that the store
\* executes after the removal finds nothing, also when its handler had called
\* the store before the removal, and is answered 404 'Order not found'.
C15_DeletionIsTerminal ==
    /\ [](\A id \in Deleted : id \notin DOMAIN store)
    /\ [][\A r \in DOMAIN pending :
            (/\ Runs(r, "update") /\ requests[r].id \in Deleted
             /\ requests[r].body.status \in Statuses)
            => /\ pending'[r].error = "ok" /\ pending'[r].order = None
               /\ store' = store
         ]_vars
    /\ [][\A r \in DOMAIN pending :
            (Runs(r, "delete") /\ requests[r].id \in Deleted)
            => pending'[r].error = "ok" /\ ~pending'[r].found /\ store' = store
         ]_vars
    /\ [][\A r \in DOMAIN pending :
            (/\ Answered(r) /\ pending[r].op \in {"update", "delete"}
             /\ pending[r].error = "ok"
             /\ IF pending[r].op = "update" THEN pending[r].order = None
                ELSE ~pending[r].found)
            => responses'[r] = FailResponse(404, MsgNotFound, UNDEF) /\ inbox' = inbox
         ]_vars

\* C15 witness: the update was called first and the delete second; the store
\* ran the delete first, and the update was answered 404.
C15_Witness ==
    /\ Len(requests) = 2 /\ DOMAIN responses = {1, 2}
    /\ requests[1].op = "update" /\ requests[1].id = 1
    /\ requests[1].body.status = "delivered"
    /\ requests[2] = [op |-> "delete", id |-> 1]
    /\ responses[2].success
    /\ responses[1] = FailResponse(404, MsgNotFound, UNDEF)
    /\ store = EmptyMap

\* The totalAmount of the stored order id if it is delivered, else 0.
DeliveredAmount(st, id) ==
    IF id \in DOMAIN st /\ st[id].status = "delivered" /\ st[id].totalAmount # None
    THEN st[id].totalAmount[1] ELSE 0

\* The sum of totalAmount over the delivered orders of a store with ids 1..n.
RECURSIVE DeliveredSum(_, _)
DeliveredSum(st, n) == IF n = 0 THEN 0 ELSE DeliveredAmount(st, n) + DeliveredSum(st, n - 1)

\* C16: the revenue query of getOrderStats reads the sum of totalAmount over
\* the orders that are delivered at that moment (0 when none is), and the
\* response returns what the query read; a step that moves one order away from
\* delivered, or deletes it, lowers that sum by the order's totalAmount.
C16_RevenueIsDeliveredSum ==
    /\ [][\A r \in DOMAIN pending :
            (/\ pending[r].op = "stats" /\ Len(pending[r].results) = 7
             /\ r \in DOMAIN pending' /\ Len(pending'[r].results) = 8)
            => /\ pending'[r].results[8] = DeliveredSum(store, nextId)
               /\ (\A id \in DOMAIN store : store[id].status # "delivered")
                    => pending'[r].results[8] = 0
         ]_vars
    /\ [][\A r \in DOMAIN pending :
            (Answered(r) /\ pending[r].op = "stats")
            => /\ responses'[r].success
               /\ responses'[r].data[1].totalRevenue = pending[r].results[8]
         ]_vars
    /\ [][\A id \in DOMAIN store :
            (/\ store[id].status = "delivered"
             /\ id \in DOMAIN store' => store'[id].status # "delivered"
             /\ \A other \in DOMAIN store \ {id} :
                  other \in DOMAIN store' /\ store'[other] = store[other]
             /\ DOMAIN store' \subseteq DOMAIN store)
            => DeliveredSum(store', nextId') = DeliveredSum(store, nextId) - store[id].totalAmount[1]
         ]_vars

\* C16 witness: with both orders delivered the revenue was 2.51; the order of
\* one cent was moved to preparing, and the next statistics gave 2.50.
C16_Witness ==
    /\ Len(requests) = 3 /\ DOMAIN responses = {1, 2, 3}
    /\ requests[1].op = "stats" /\ requests[3].op = "stats"
    /\ requests[2].op = "update" /\ requests[2].id = 1
    /\ requests[2].body.status = "preparing"
    /\ responses[1].data[1].totalRevenue = 251
    /\ responses[2].success
    /\ responses[3].data[1].totalRevenue = 250
    /\ responses[3].data[1].deliveredOrders = 1

\* A stored order without its status and administrative fields.
Submitted(doc) ==
    [doc EXCEPT !.status = "", !.assignedDriver = "", !.notes = "",
                !.estimatedDelivery = ""]

\* The update whose command the store executes in this step, if any.
UpdateStep(id) ==
    /\ Received /\ NewRequest.op = "update" /\ NewRequest.id = id

\* C13: no step changes the orderNumber, customer fields, items, totalAmount
\* or any other submitted field of a stored order; its status and
\* administrative fields change only in an update of that order, each
\* administrative field only to the value the update supplies; and an order
\* leaves the store only by a delete of that order.
C13_SubmittedFieldsAreFrozen ==
    /\ [][\A id \in DOMAIN store :
            IF id \in DOMAIN store'
            THEN /\ Submitted(store'[id]) = Submitted(store[id])
                 /\ store'[id] # store[id] =>
                      /\ UpdateStep(id)
                      /\ store'[id].status \in {store[id].status, NewRequest.body.status}
                      /\ store'[id].assignedDriver
                           \in {store[id].assignedDriver, NewRequest.body.assignedDriver}
                      /\ store'[id].notes \in {store[id].notes, NewRequest.body.notes}
                      /\ store'[id].estimatedDelivery
                           \in {store[id].estimatedDelivery, NewRequest.body.estimatedDelivery}
            ELSE Received /\ NewRequest = [op |-> "delete", id |-> id]
         ]_vars
    /\ [](\A id \in DOMAIN store :
            /\ store[id]._id = id
            /\ store[id].orderNumber \in OrderNumbers
            /\ store[id].totalAmount # None /\ store[id].totalAmount[1] > 0
            /\ Len(store[id].items) > 0)

\* C13 witness: order 1 was updated, another order was submitted and
\* persisted, statistics were computed, and order 1 is as it was submitted
\* but for its status.
C13_Witness ==
    /\ Len(requests) = 3 /\ DOMAIN responses = {1, 2, 3}
    /\ \E r \in 1..3 :
         /\ requests[r].op = "update" /\ requests[r].id = 1 /\ responses[r].success
         /\ requests[r].body.status = "preparing"
    /\ \E r \in 1..3 : requests[r].op = "create" /\ responses[r].success
    /\ \E r \in 1..3 : requests[r].op = "stats"
    /\ 1 \in DOMAIN store /\ 2 \in DOMAIN store
    /\ store[1] = [SavedDoc(FlatBody, "ORD-1", 1) EXCEPT !.status = "preparing"]

\* The order_updated and order_deleted events that socket s holds, oldest
\* first, each as the order id and the record it carries.
OfficeEvents(s) ==
    LET IsOffice(e) == e.type \in {"order_updated", "order_deleted"}
        evs == SelectSeq(inbox[s], IsOffice)
    IN  [i \in 1..Len(evs) |-> [type |-> evs[i].type, id |-> evs[i].id, order |-> evs[i].order]]

\* The events of the successful updates and deletes, in the order in which
\* the store executed them (in the status model a request is received and
\* executed in one step, so that is the order of requests).
CommittedEvents ==
    LET nums == [i \in 1..Len(requests) |-> i]
        Emits(r) == /\ requests[r].op \in {"update", "delete"}
                    /\ r \in DOMAIN responses /\ responses[r].success
        rs == SelectSeq(nums, Emits)
    IN  [i \in 1..Len(rs) |->
            IF requests[rs[i]].op = "update"
            THEN [type |-> "order_updated", id |-> requests[rs[i]].id,
                  order |-> responses[rs[i]].data]
            ELSE [type |-> "order_deleted", id |-> requests[rs[i]].id, order |-> None]]

\* C17: once every request is answered, the member of admin_room holds the
\* events of the successful updates and deletes in the order in which the
\* store executed them, and the last order_updated event of every stored
\* order carries the stored record.
C17_EventsInCommitOrder ==
    pending = EmptyMap =>
        /\ OfficeEvents("s1") = CommittedEvents
        /\ \A id \in DOMAIN store :
             LET evs == OfficeEvents("s1")
                 upd == {i \in 1..Len(evs) : evs[i].type = "order_updated" /\ evs[i].id = id}
             IN  upd # {} =>
                   evs[CHOOSE i \in upd : \A j \in upd : j <= i].order = Some(store[id])

\* The event type a handler emits.
EventType(op) ==
    IF op = "create" THEN "new_order"
    ELSE IF op = "update" THEN "order_updated" ELSE "order_deleted"

\* C18: a socket receives an event only in a step in which it is a member of
\* admin_room, that is, it has sent join_admin and has not disconnected; a
\* socket that has not joined holds no event, and a closed socket holds what
\* it held when it closed.
C18_OnlyMembersReceive ==
    /\ [][\A s \in Sockets : inbox'[s] # inbox[s] => socket[s] = "joined"]_vars
    /\ [](\A s \in Sockets : socket[s] \in {"new", "connected"} => inbox[s] = <<>>)
    /\ [][\A s \in Sockets : socket[s] = "closed" => socket'[s] = "closed"]_vars

\* C18 witness: a socket received an event as a member and disconnected; the
\* next event reached only the socket that is still a member.
C18_Witness ==
    \E s, t \in Sockets :
        /\ socket[s] = "closed" /\ socket[t] = "joined"
        /\ Len(inbox[s]) = 1 /\ Len(inbox[t]) = 2
        /\ inbox[t][1] = inbox[s][1]

\* C19: a step that answers a submission, update or delete with success
\* appends its one event to the inbox of every socket that is then a member of
\* admin_room, whatever the other sockets are doing, and a step in which a
\* socket connects, joins or disconnects delivers nothing and takes nothing
\* back: a member receives every event emitted after its join exactly once.
C19_EventAfterJoinOnce ==
    /\ [][\A r \in DOMAIN pending :
            (Answered(r) /\ responses'[r].success)
            => \A s \in Sockets :
                 socket[s] = "joined" =>
                   /\ Len(inbox'[s]) = Len(inbox[s]) + 1
                   /\ SubSeq(inbox'[s], 1, Len(inbox[s])) = inbox[s]
                   /\ inbox'[s][Len(inbox'[s])].type = EventType(requests[r].op)
                   /\ requests[r].op \in {"update", "delete"}
                        => inbox'[s][Len(inbox'[s])].id = requests[r].id
         ]_vars
    /\ [][socket' # socket => inbox' = inbox]_vars

\* C19 witness: a socket joined after the first event had been emitted and
\* holds exactly the second event, which the earlier member holds as its
\* second.
C19_Witness ==
    \E s, t \in Sockets :
        /\ socket[s] = "joined"
        /\ Len(inbox[s]) = 1 /\ Len(inbox[t]) = 2
        /\ inbox[s][1] = inbox[t][2]
        /\ inbox[t][1] # inbox[t][2]

\* The store operation of the pending request r has taken effect.
TookEffect(r) ==
    /\ pending[r].op \in {"create", "update", "delete"}
    /\ pending[r].error = "ok"
    /\ IF pending[r].op = "delete" THEN pending[r].found ELSE pending[r].order # None

\* C20: a request whose store operation has taken effect is answered with
\* success, whatever happens in the broadcast.
C20_BroadcastFailureSwallowed ==
    [][\A r \in DOMAIN pending :
         (Answered(r) /\ TookEffect(r)) => responses'[r].success]_vars

----------------------------------------------------------------------------
(* Order numbers. *)

\* C21: no two stored orders have the same orderNumber, also when two
\* submissions are in flight together and generateOrderNumber gave both the
\* same number.
C21_OrderNumbersUnique ==
    \A i, j \in DOMAIN store : store[i].orderNumber = store[j].orderNumber => i = j

\* C21 witness: two submissions in flight on an empty store drew the same
\* number; the first was inserted, the second was refused by the index.
C21_Witness ==
    \E r1, r2 \in DOMAIN pending :
        /\ r1 # r2 /\ pending[r1].op = "create" /\ pending[r2].op = "create"
        /\ pending[r1].order # None /\ pending[r1].order[1]._id = 1
        /\ pending[r2].error = ErrDuplicate
        /\ DOMAIN store = {1}

\* C22: a submission is answered with the uniqueness conflict only after a
\* second Order.create under a regenerated number: the answer to a submission
\* whose create hit the conflict comes after two attempts.
C22_ConflictRetriedOnce ==
    [][\A r \in DOMAIN pending :
          (Answered(r) /\ pending[r].op = "create" /\ pending[r].error = ErrDuplicate)
          => pending[r].attempts = 2]_vars

----------------------------------------------------------------------------
(* Search. *)

\* The ids of the orders in the answer to search request r.
ResultIds(r) ==
    {responses[r].data[1].orders[i]._id : i \in 1..Len(responses[r].data[1].orders)}

\* The stored orders whose phone number holds p, and those whose order
\* number, customer name or address holds q.
PhoneHits(p) == {id \in DOMAIN store : Contains(store[id].phoneNumber, p)}
TextHits(q) ==
    {id \in DOMAIN store :
        \/ Contains(ToLower(store[id].orderNumber), ToLower(q))
        \/ Contains(ToLower(store[id].customerName), ToLower(q))
        \/ Contains(ToLower(store[id].address), ToLower(q))}

\* C23, as claimed: a search by the text q alone returns every order whose
\* phone number holds q, and exactly those when no order number, name or
\* address holds q: on the three orders, the text 555 returns orders 1 and 2.
C23_TextMatchesPhoneNumbers ==
    \A r \in DOMAIN responses :
        (requests[r].op = "search" /\ Truthy(requests[r].query)
         /\ ~Truthy(requests[r].phone))
        => /\ PhoneHits(requests[r].query) \subseteq ResultIds(r)
           /\ TextHits(requests[r].query) = {} => ResultIds(r) = PhoneHits(requests[r].query)

\* C23, amended: the text matches order number, customer name and address
\* only; it is the phone filter that selects by phone number.  A search by the
\* phone filter p alone returns exactly the orders whose phone number holds p
\* (on the three orders, the filter 555 returns orders 1 and 2, newest first),
\* a search by text and filter returns none outside them, and a search by the
\* text 555 alone returns no order.
C23_PhoneFilterMatchesPhoneNumbers ==
    \A r \in DOMAIN responses :
        requests[r].op = "search" =>
            /\ (Truthy(requests[r].phone) /\ ~Truthy(requests[r].query))
                  => ResultIds(r) = PhoneHits(requests[r].phone)
            /\ Truthy(requests[r].phone) => ResultIds(r) \subseteq PhoneHits(requests[r].phone)
            /\ (requests[r].phone = "555" /\ requests[r].query = UNDEF /\ store = SearchStore)
                  => /\ Len(responses[r].data[1].orders) = 2
                     /\ responses[r].data[1].orders[1]._id = 2
                     /\ responses[r].data[1].orders[2]._id = 1
                     /\ responses[r].data[1].count = 2
            /\ (requests[r].query = "555" /\ requests[r].phone = UNDEF)
                  => ResultIds(r) = {}

\* C23 witness: on the three orders, a search by the phone filter 555 alone
\* was answered with two orders and a search by the text 555 alone with none.
C23_Witness ==
    /\ store = SearchStore
    /\ \E r1, r2 \in DOMAIN responses :
        /\ requests[r1].op = "search" /\ requests[r1].phone = "555"
        /\ requests[r1].query = UNDEF /\ ResultIds(r1) = {1, 2}
        /\ requests[r2].op = "search" /\ requests[r2].query = "555"
        /\ requests[r2].phone = UNDEF /\ responses[r2].data[1].count = 0

----------------------------------------------------------------------------
(* The status of a new order. *)

\* C24: every order that a step inserts has status pending in the store, and
\* every new_order event that a step delivers carries an order of status
\* pending, whatever the submission held, a status of its own included.
C24_CreatedPending ==
    [][/\ \A id \in DOMAIN store' \ DOMAIN store : store'[id].status = "pending"
       /\ \A s \in Sockets : \A i \in (Len(inbox[s]) + 1)..Len(inbox'[s]) :
             inbox'[s][i].type = "new_order" => inbox'[s][i].order[1].status = "pending"
      ]_vars

\* C24 witness: a submission that carried status delivered was persisted with
\* status pending and its new_order event reached the member of admin_room.
C24_Witness ==
    /\ Len(requests) >= 1 /\ requests[1].body.status = "delivered"
    /\ 1 \in DOMAIN store /\ store[1].status = "pending"
    /\ \E i \in 1..Len(inbox["s1"]) :
          /\ inbox["s1"][i].type = "new_order" /\ inbox["s1"][i].id = 1
          /\ inbox["s1"][i].order[1].status = "pending"

----------------------------------------------------------------------------
(* Authorization. *)

\* C25: a request to a protected route (list, statistics, search, get,
\* status update, delete) whose Authorization header is not the Bearer header
\* with an unexpired token that login issues to the admin is answered 401
\* without data and changes neither the store nor any inbox, room or pending
\* operation.
C25_OfficeRoutesNeedAdminToken ==
    [][\A authorization \in AuthHeaders :
          (authorization # AdminHeader /\ OfficeRequest(authorization))
          => /\ store' = store /\ nextId' = nextId
             /\ inbox' = inbox /\ socket' = socket /\ pending' = pending
             /\ responses'[NextReq].status = 401
             /\ ~responses'[NextReq].success /\ responses'[NextReq].data = None
      ]_vars

\* C25 witness: a request with an expired token of the admin was answered 401
\* with the order still stored as it was, and an update with the admin's
\* header then took effect.
C25_Witness ==
    \E r1, r2 \in DOMAIN responses :
        /\ requests[r1].op = "unauthorized" /\ responses[r1].status = 401
        /\ requests[r1].authorization # None
        /\ requests[r1].authorization[1].token # None
        /\ requests[r1].authorization[1].token[1].expired
        /\ requests[r2].op = "update" /\ responses[r2].status = 200
        /\ r1 < r2 /\ store[1].status = "delivered"

----------------------------------------------------------------------------
(* The items of a stored order. *)

\* C26: every item of every stored order has a name, a quantity of at least
\* 1 and a price of at least 0.
C26_StoredItemsWithinBounds ==
    \A id \in DOMAIN store : \A i \in 1..Len(store[id].items) :
        /\ Truthy(store[id].items[i].name)
        /\ store[id].items[i].quantity # None /\ store[id].items[i].quantity[1] >= 1
        /\ store[id].items[i].price # None /\ store[id].items[i].price[1] >= 0

----------------------------------------------------------------------------
(* The origin of an order_updated event. *)

\* C27: every order_updated event in an inbox carries the record with which a
\* status update of a stored order was answered with success; no message of a
\* socket puts an order_updated event into an inbox.
C27_UpdatedEventsComeFromUpdates ==
    \A s \in Sockets : \A i \in 1..Len(inbox[s]) :
        inbox[s][i].type = "order_updated"
        => \E r \in DOMAIN responses :
              /\ requests[r].op = "update" /\ requests[r].id = inbox[s][i].id
              /\ responses[r].success /\ responses[r].data = inbox[s][i].order

----------------------------------------------------------------------------
(* Two status updates of one order in flight together. *)

\* The document that the store returned to update request r, if it has run.
Returned(r) ==
    IF r \in DOMAIN responses THEN responses[r].data
    ELSE IF pending[r].op = "update" THEN pending[r].order
    ELSE None

\* The stored order 1 is what the update of request early followed by the
\* update of request late leaves: the status of late, each administrative
\* field of late if late gave it and else of early, every other field as
\* submitted; the store returned that record to late, and to early a record
\* with early's status.
SerialOutcome(early, late) ==
    /\ store[1].status = requests[late].body.status
    /\ store[1].assignedDriver =
          Or(requests[late].body.assignedDriver, requests[early].body.assignedDriver)
    /\ store[1].notes = Or(requests[late].body.notes, requests[early].body.notes)
    /\ store[1].estimatedDelivery =
          Or(requests[late].body.estimatedDelivery, requests[early].body.estimatedDelivery)
    /\ Submitted(store[1]) = Submitted(SavedDoc(FlatBody, "ORD-1", 1))
    /\ Returned(late) = Some(store[1])
    /\ Returned(early)[1].status = requests[early].body.status
    /\ Returned(early)[1].notes = requests[early].body.notes

\* C28: when the store has executed two updates of order 1 to statuses of the
\* enumeration, whichever was called first and whichever ran first, the
\* stored record is the outcome of one of the two serial orders.
C28_LastWriteWins ==
    (/\ Len(requests) = 2
     /\ \A r \in 1..2 : /\ requests[r].op = "update" /\ requests[r].id = 1
                        /\ requests[r].body.status \in Statuses
                        /\ Returned(r) # None)
    => SerialOutcome(1, 2) \/ SerialOutcome(2, 1)

\* C28 witness: the update to delivered was called first and ran last, after
\* the update to cancelled with its note: the record is delivered and has the
\* note.
C28_Witness ==
    /\ Len(requests) = 2 /\ DOMAIN responses = {1, 2}
    /\ requests[1].op = "update" /\ requests[1].id = 1
    /\ requests[1].body.status = "delivered"
    /\ requests[2].op = "update" /\ requests[2].id = 1
    /\ requests[2].body.status = "cancelled"
    /\ store[1].status = "delivered" /\ store[1].notes = "customer away"

----------------------------------------------------------------------------
(* Events of a deleted order. *)

\* C29: in no inbox does an order_updated event for an order come after the
\* order_deleted event for that order.
C29_NoUpdatedAfterDeleted ==
    \A s \in Sockets : \A i, j \in 1..Len(inbox[s]) :
        (i < j /\ inbox[s][i].type = "order_deleted" /\ inbox[s][j].type = "order_updated")
        => inbox[s][i].id # inbox[s][j].id

----------------------------------------------------------------------------
(* The counts of one statistics response. *)

\* C30: in every response of getOrderStats the total count is the sum of the
\* six counts by status.
C30_TotalIsSumOfCounts ==
    \A r \in DOMAIN responses :
        requests[r].op = "stats"
        => responses[r].data[1].totalOrders =
              responses[r].data[1].pendingOrders + responses[r].data[1].confirmedOrders
              + responses[r].data[1].preparingOrders + responses[r].data[1].deliveryOrders
              + responses[r].data[1].deliveredOrders + responses[r].data[1].cancelledOrders

====
